---- MODULE Spec2Model ----
(***************************************************************************)
(* Model of the WGAN-GP adversarial pair (src/models/wgan.py) and of the   *)
(* training loop that drives it (src/trainer.py).                          *)
(*                                                                         *)
(* Three entry points of the library are modelled:                         *)
(*   "construct" : WGAN(config)                                            *)
(*   "generate"  : WGAN.generate(batch) on an existing pair                *)
(*   "train"     : Trainer(gan_model, ...) followed by Trainer.fit(...)    *)
(* Trainer.fit is modelled statement by statement; pc holds the source     *)
(* line of the next statement of src/trainer.py.                           *)
(***************************************************************************)
EXTENDS Integers, Sequences, FiniteSets, TLC

\* ------------------------------------------------------------------ bounds
MaxEpoch == 2
LoaderLen == 2
MaxCriticStep == 2
MaxDisplayStep == 2
MaxFeature == 2

\* ------------------------------------------------------- program constants
PenaltyCoefficient == 10

\* ----------------------------------------------------------------- strings
\* Architecture names are sequences of characters so that str.lower() is
\* computed character by character.
UpperLetters ==
    <<"A","B","C","D","E","F","G","H","I","J","K","L","M",
      "N","O","P","Q","R","S","T","U","V","W","X","Y","Z">>

LowerLetters ==
    <<"a","b","c","d","e","f","g","h","i","j","k","l","m",
      "n","o","p","q","r","s","t","u","v","w","x","y","z">>

LowerChar(c) ==
    IF \E i \in 1..Len(UpperLetters) : UpperLetters[i] = c
    THEN LowerLetters[CHOOSE i \in 1..Len(UpperLetters) : UpperLetters[i] = c]
    ELSE c

Lower(s) == [i \in 1..Len(s) |-> LowerChar(s[i])]

ArchNames ==
    { <<"n","o","d","e">>, <<"N","O","D","E">>, <<"N","o","d","e">>,
      <<"f","c","n">>, <<"F","C","N">>, <<"F","c","n">>,
      <<"t","r","a","n","s","f","o","r","m","e","r">> }

OptimizerNames == {"adam", "Adam", "sgd"}

CheckpointPaths == {"", "ckpt.pt"}

\* ------------------------------------------------------------------ state
VARIABLES
    entry,              \* which entry point of the library is exercised
    pc,                 \* position: a line label, or a terminal label
    error,              \* exception type that ended the call, or "none"
    raisedAt,           \* source line that raised, or 0
    params,             \* WGAN.params (the configuration mapping)
    ckptFiles,          \* checkpoint files present on disk before construction
    methods,            \* attribute names the gan_model object provides
    generator_model,    \* WGAN.generator_model: "none", "node" or "fcn"
    critic_model,       \* WGAN.critic_model:    "none", "node" or "fcn"
    loaded,             \* roles whose checkpoint was loaded with load_state_dict
    genInput,           \* the batch handed to WGAN.generate
    genResult,          \* outcome of WGAN.generate
    trainer,            \* Trainer attributes set by Trainer.__init__
    epoch,              \* loop variable of line 65
    iteration,          \* loop variable of line 66 (enumerate index)
    nextIdx,            \* position of the train_loader iterator
    batch,              \* loop variable of line 66 (the batch), -1 = unbound
    inner,              \* position of range(critic_step) at line 67
    critic_losses,      \* local of fit
    generator_losses,   \* local of fit
    grads,              \* per network: losses accumulated in .grad since zero_grad
    steps,              \* per optimizer: number of step() calls
    startSteps,         \* steps at the start of the current outer iteration
    trace,              \* calls made during the current outer iteration
    dirExists,          \* os.path.exists(save_path)
    files               \* checkpoint files written by save_models

vars == << entry, pc, error, raisedAt, params, ckptFiles, methods,
           generator_model, critic_model, loaded, genInput, genResult,
           trainer, epoch, iteration, nextIdx, batch, inner,
           critic_losses, generator_losses, grads, steps, startSteps,
           trace, dirExists, files >>

wganVars == << params, ckptFiles, generator_model, critic_model, loaded >>
genVars == << genInput, genResult >>
fitVars == << trainer, epoch, iteration, nextIdx, batch, inner,
              critic_losses, generator_losses, grads, steps, startSteps,
              trace, dirExists, files >>

\* ------------------------------------------------------ WGAN construction
NoBuild == [error |-> "none", line |-> 0, model |-> "none", loadedCkpt |-> FALSE]

\* torch.load + load_state_dict of lines 61-64 / 82-85
LoadCheckpoint(built, path, present, loadLine) ==
    IF path = "" THEN built
    ELSE IF path \notin present
         THEN [built EXCEPT !.error = "FileNotFoundError", !.line = loadLine]
         ELSE [built EXCEPT !.loadedCkpt = TRUE]

\* create_generator as it would read with the dispatch written like
\* create_critic's: lower-case literals, tested against the generator's name.
create_generator_OwnName(p, present) ==
    IF Lower(p.generator_architecture) = <<"n","o","d","e">>
    THEN LoadCheckpoint([NoBuild EXCEPT !.model = "node"],
                        p.generator.checkpoint_path, present, 63)
    ELSE IF Lower(p.generator_architecture) = <<"f","c","n">>
    THEN LoadCheckpoint([NoBuild EXCEPT !.model = "fcn"],
                        p.generator.checkpoint_path, present, 63)
    ELSE [NoBuild EXCEPT !.error = "NameError", !.line = 57]

create_generator(p, present) ==
    IF Lower(p.generator_architecture) = <<"N","O","D","E">>
    THEN LoadCheckpoint([NoBuild EXCEPT !.model = "node"],
                        p.generator.checkpoint_path, present, 63)
    ELSE IF Lower(p.critic_architecture) = <<"F","C","N">>
    THEN LoadCheckpoint([NoBuild EXCEPT !.model = "fcn"],
                        p.generator.checkpoint_path, present, 63)
    ELSE [NoBuild EXCEPT !.error = "NameError", !.line = 57]

create_critic(p, present) ==
    IF Lower(p.critic_architecture) = <<"n","o","d","e">>
    THEN LoadCheckpoint([NoBuild EXCEPT !.model = "node"],
                        p.critic.checkpoint_path, present, 84)
    ELSE IF Lower(p.critic_architecture) = <<"f","c","n">>
    THEN LoadCheckpoint([NoBuild EXCEPT !.model = "fcn"],
                        p.critic.checkpoint_path, present, 84)
    ELSE [NoBuild EXCEPT !.error = "NameError", !.line = 78]

\* WGAN.__init__: create_generator() then create_critic(); an exception in
\* the first leaves the second uncalled.
WGANInit ==
    /\ entry = "construct"
    /\ pc = "wgan_init"
    /\ LET g == create_generator(params, ckptFiles)
           c == create_critic(params, ckptFiles)
       IN /\ generator_model' = g.model
          /\ loaded' = (IF g.loadedCkpt THEN {"generator"} ELSE {})
                        \cup (IF g.error = "none" /\ c.loadedCkpt
                              THEN {"critic"} ELSE {})
          /\ IF g.error # "none"
             THEN /\ pc' = "raised"
                  /\ error' = g.error
                  /\ raisedAt' = g.line
                  /\ critic_model' = critic_model
             ELSE /\ critic_model' = c.model
                  /\ IF c.error # "none"
                     THEN /\ pc' = "raised"
                          /\ error' = c.error
                          /\ raisedAt' = c.line
                     ELSE /\ pc' = "constructed"
                          /\ UNCHANGED << error, raisedAt >>
    /\ UNCHANGED << entry, params, ckptFiles, methods >>
    /\ UNCHANGED genVars
    /\ UNCHANGED fitVars

\* ---------------------------------------------------------- WGAN.generate
\* The body of generate, one entry per statement: the names it reads and
\* the names it binds.  Every name assigned in the body is a local, so a
\* read of a local that is not yet bound raises UnboundLocalError.
generateBody ==
    << [line |-> 154, reads |-> {"batch"},            writes |-> {"x", "_"}],
       [line |-> 155, reads |-> {"x"},                writes |-> {"x"}],
       [line |-> 156, reads |-> {"dlls"},             writes |-> {"dlls"}],
       [line |-> 157, reads |-> {"dlls"},             writes |-> {"dlls"}],
       [line |-> 159, reads |-> {"x"},                writes |-> {"noize"}],
       [line |-> 160, reads |-> {"x", "noize"},       writes |-> {"noized_x"}],
       [line |-> 164, reads |-> {"noized_x"},         writes |-> {"generated"}],
       [line |-> 165, reads |-> {"generated"},        writes |-> {}] >>

\* Line of the first statement of body[i..] that reads an unbound name,
\* 0 when the body runs to its end.
RECURSIVE FirstUnboundRead(_, _, _)
FirstUnboundRead(body, i, bound) ==
    IF i > Len(body) THEN 0
    ELSE IF ~(body[i].reads \subseteq bound) THEN body[i].line
    ELSE FirstUnboundRead(body, i + 1, bound \cup body[i].writes)

NoOutput == [x |-> -1, noise |-> -1, grad |-> FALSE]

\* generate(batch) with the noise get_noise returns at line 159: the
\* generator applied to cat([x, noize]), under torch.no_grad().
generate(b, noize) ==
    LET failed == FirstUnboundRead(generateBody, 1, {"batch"})
    IN IF failed # 0
       THEN [status |-> "raised", error |-> "UnboundLocalError",
             line |-> failed, output |-> NoOutput]
       ELSE [status |-> "returned", error |-> "none", line |-> 165,
             output |-> [x |-> b.x, noise |-> noize, grad |-> FALSE]]

Generate ==
    /\ entry = "generate"
    /\ pc = "generate"
    /\ \E noize \in 0..MaxFeature :
         LET r == generate(genInput, noize)
         IN /\ genResult' = r
            /\ error' = r.error
            /\ raisedAt' = IF r.status = "raised" THEN r.line ELSE 0
            /\ pc' = IF r.status = "raised" THEN "raised" ELSE "generated"
    /\ UNCHANGED << entry, methods, genInput >>
    /\ UNCHANGED wganVars
    /\ UNCHANGED fitVars

\* ------------------------------------------------------------- tensors
\* A tensor is its value and the networks whose parameters its autograd
\* graph reaches (deps).  Batch tensors hold one entry per example.
Networks == {"generator", "critic"}

Tensor(v, d) == [val |-> v, deps |-> d]

Detach(t) == Tensor(t.val, {})

\* torch.cat along the feature axis: the graph of the result reaches
\* whatever either operand reaches; values are carried by the caller.
Cat(a, b) == Tensor(<<a.val, b.val>>, a.deps \cup b.deps)

\* A network applied to a tensor; out is what the network computes.
Forward(net, t, out) == Tensor(out, t.deps \cup {net})

RECURSIVE SumSeq(_)
SumSeq(s) == IF s = <<>> THEN 0 ELSE Head(s) + SumSeq(Tail(s))

\* torch.mean over the batch
Mean(t) == Tensor(SumSeq(t.val) \div Len(t.val), t.deps)

Neg(t) == Tensor(0 - t.val, t.deps)
Sub(a, b) == Tensor(a.val - b.val, a.deps \cup b.deps)
Add(a, b) == Tensor(a.val + b.val, a.deps \cup b.deps)
Scale(k, t) == Tensor(k * t.val, t.deps)

\* Per-example critic scores and per-example input gradients a network can
\* produce on a batch of two examples.
ScoreBatches == { <<0, 2>>, <<2, 2>> }
GradientBatches == { << <<1, 0>>, <<1, 0>> >>, << <<1, 0>>, <<0, 3>> >> }

\* models.get_gradient: the critic is scored on the interpolation
\* epsilon * real + (1 - epsilon) * fake and differentiated with respect to
\* that input, keeping the graph so that the penalty stays differentiable.
get_gradient(crit, real, fake, epsilon, gradient) ==
    Tensor(gradient, {crit} \cup real.deps \cup fake.deps)

EuclideanNorm(row) ==
    CHOOSE n \in 0..SumSeq(row) : n * n = SumSeq([i \in 1..Len(row) |-> row[i] * row[i]])

\* models.gradient_penalty: mean over the batch of (norm - 1)^2
gradient_penalty(gradient) ==
    Mean(Tensor([i \in 1..Len(gradient.val) |->
                    (EuclideanNorm(gradient.val[i]) - 1)
                    * (EuclideanNorm(gradient.val[i]) - 1)],
                gradient.deps))

CriticKeys == {"C/loss", "C/fake_pred", "C/real_pred", "gradient penalty"}

\* WGAN.train_critic(batch); fake, real and gradient are what the networks
\* compute on this batch and this noise.
train_critic(b, fake, real, gradient) ==
    LET x == Tensor(b, {})
        dlls == Tensor(b, {})
        noized_x == Cat(x, Tensor(0, {}))
        real_full == Cat(dlls, x)
        generated == Cat(Forward("generator", noized_x, 0), x)
        crit_fake_pred == Forward("critic", Detach(generated), fake)
        crit_real_pred == Forward("critic", real_full, real)
        crit_fake_pred_mean == Mean(crit_fake_pred)
        crit_real_pred_mean == Mean(crit_real_pred)
        critic_loss == Sub(crit_fake_pred_mean, crit_fake_pred_mean)
        epsilon == Tensor(0, {})
        grad == get_gradient("critic", real_full, generated, epsilon, gradient)
        gp == gradient_penalty(grad)
    IN ("C/loss" :> Add(critic_loss, Scale(PenaltyCoefficient, gp)))
       @@ ("C/fake_pred" :> crit_fake_pred_mean)
       @@ ("C/real_pred" :> crit_real_pred_mean)
       @@ ("gradient penalty" :> gp)

\* WGAN.train_generator(batch)
train_generator(b, fake) ==
    LET x == Tensor(b, {})
        noized_x == Cat(x, Tensor(0, {}))
        generated == Cat(Forward("generator", noized_x, 0), x)
        crit_fake_pred == Forward("critic", generated, fake)
        generator_loss == Neg(Mean(crit_fake_pred))
    IN ("G/loss" :> generator_loss)

\* ------------------------------------------------- WGAN.configure_optimizers
NoOptimizer == "none"

\* torch.optim.Adam(model.parameters(), ...): the optimizer is identified by
\* the network whose parameters it updates.
Adam(net) == net

\* configure_optimizers with the else branches defaulting to Adam
configure_optimizers_Default(p) ==
    [error |-> "none", line |-> 0,
     optimizers |-> <<Adam("generator"), Adam("critic")>>]

configure_optimizers(p) ==
    IF p.generator.optimizer # "adam"
    THEN [error |-> "NameError", line |-> 32,
          optimizers |-> <<NoOptimizer, NoOptimizer>>]
    ELSE IF p.critic.optimizer # "adam"
    THEN [error |-> "NameError", line |-> 41,
          optimizers |-> <<NoOptimizer, NoOptimizer>>]
    ELSE [error |-> "none", line |-> 0,
          optimizers |-> <<Adam("generator"), Adam("critic")>>]

\* Attributes the class WGAN defines (methods and instance attributes).
WGANAttrs ==
    { "__init__", "configure_optimizers", "create_generator", "create_critic",
      "train_generator", "train_critic", "generate", "get_histograms",
      "params", "generator_model", "critic_model" }

\* A gan_model that provides everything Trainer calls: a WGAN extended with
\* save_models and evaluate.
CompleteAttrs == WGANAttrs \cup {"save_models", "evaluate"}

\* ----------------------------------------------------------------- Trainer
NoSrc == [epoch |-> -1, iteration |-> -1, call |-> -1]
NoName == <<"epoch_", -1, "_iter_", -1, ".pt">>

\* One call made by fit: the operation, what it is applied to (an optimizer
\* attribute, a loss key or a metric key), the batch passed, the value
\* logged, the train_* call that produced the value, and a file name.
Ev(op, target, b, v, src, name) ==
    [op |-> op, target |-> target, batch |-> b, val |-> v, src |-> src,
     name |-> name]

Call(op, target) == Ev(op, target, -1, 0, NoSrc, NoName)

UnboundCritic ==
    [bound |-> FALSE, src |-> NoSrc, batch |-> -1,
     vals |-> [k \in CriticKeys |-> Tensor(0, {})]]

UnboundGenerator ==
    [bound |-> FALSE, src |-> NoSrc, batch |-> -1,
     vals |-> [k \in {"G/loss"} |-> Tensor(0, {})]]

\* f"epoch_{epoch}_iter_{iteration}.pt"
CheckpointName(e, i) == <<"epoch_", e, "_iter_", i, ".pt">>

Raise(exc, line) ==
    /\ pc' = "raised"
    /\ error' = exc
    /\ raisedAt' = line

Goto(label) ==
    /\ pc' = label
    /\ UNCHANGED << error, raisedAt >>

\* Trainer.__init__ (lines 27-38)
TrainerInit ==
    /\ entry = "train"
    /\ pc = "trainer_init"
    /\ LET r == configure_optimizers(params)
       IN IF r.error # "none"
          THEN /\ Raise(r.error, r.line)
               /\ UNCHANGED trainer
          ELSE /\ Goto("L65")
               /\ trainer' = [trainer EXCEPT
                                !.constructed = TRUE,
                                !.generator_optimizer = r.optimizers[1],
                                !.critic_optimizer = r.optimizers[2]]
    /\ UNCHANGED << entry, methods, epoch, iteration, nextIdx, batch, inner,
                    critic_losses, generator_losses, grads, steps, startSteps,
                    trace, dirExists, files >>
    /\ UNCHANGED wganVars
    /\ UNCHANGED genVars

\* Everything a statement of fit leaves alone besides fit's own state.
FitFrame ==
    /\ entry = "train"
    /\ trainer.constructed
    /\ UNCHANGED << entry, methods, trainer >>
    /\ UNCHANGED wganVars
    /\ UNCHANGED genVars

\* line 65: for epoch in range(self.max_epoch)
ForEpoch ==
    /\ pc = "L65"
    /\ FitFrame
    /\ IF epoch < trainer.max_epoch
       THEN /\ Goto("L66")
            /\ nextIdx' = 0
       ELSE /\ Goto("fit_done")
            /\ UNCHANGED nextIdx
    /\ UNCHANGED << epoch, iteration, batch, inner, critic_losses,
                    generator_losses, grads, steps, startSteps, trace,
                    dirExists, files >>

\* line 66: for iteration, batch in enumerate(train_loader)
ForBatch ==
    /\ pc = "L66"
    /\ FitFrame
    /\ IF nextIdx < LoaderLen
       THEN /\ Goto("L67")
            /\ iteration' = nextIdx
            /\ batch' = nextIdx
            /\ nextIdx' = nextIdx + 1
            /\ inner' = 0
            /\ startSteps' = steps
            /\ trace' = <<>>
            /\ UNCHANGED epoch
       ELSE /\ Goto("L65")
            /\ epoch' = epoch + 1
            /\ UNCHANGED << iteration, batch, nextIdx, inner, startSteps, trace >>
    /\ UNCHANGED << critic_losses, generator_losses, grads, steps,
                    dirExists, files >>

\* line 67 iterating over range(self.critic_step + 1)
ForCriticStep_OneMore ==
    /\ pc = "L67"
    /\ FitFrame
    /\ IF inner < trainer.critic_step + 1
       THEN /\ Goto("L68")
            /\ inner' = inner + 1
       ELSE /\ Goto("L76")
            /\ UNCHANGED inner
    /\ UNCHANGED << epoch, iteration, nextIdx, batch, critic_losses,
                    generator_losses, grads, steps, startSteps, trace,
                    dirExists, files >>

\* line 67: for _ in range(self.critic_step)
ForCriticStep ==
    /\ pc = "L67"
    /\ FitFrame
    /\ IF inner < trainer.critic_step
       THEN /\ Goto("L68")
            /\ inner' = inner + 1
       ELSE /\ Goto("L76")
            /\ UNCHANGED inner
    /\ UNCHANGED << epoch, iteration, nextIdx, batch, critic_losses,
                    generator_losses, grads, steps, startSteps, trace,
                    dirExists, files >>

\* line 68: self.critic_optimizer.zero_grad()
CriticZeroGrad ==
    /\ pc = "L68"
    /\ FitFrame
    /\ Goto("L70")
    /\ grads' = [grads EXCEPT ![trainer.critic_optimizer] = {}]
    /\ trace' = Append(trace, Call("zero_grad", "critic_optimizer"))
    /\ UNCHANGED << epoch, iteration, nextIdx, batch, inner, critic_losses,
                    generator_losses, steps, startSteps, dirExists, files >>

\* line 70: critic_losses = self.gan_model.train_critic(batch)
TrainCritic ==
    /\ pc = "L70"
    /\ FitFrame
    /\ Goto("L72")
    /\ \E fake \in ScoreBatches, real \in ScoreBatches,
          gradient \in GradientBatches :
         critic_losses' =
            [bound |-> TRUE,
             src |-> [epoch |-> epoch, iteration |-> iteration, call |-> inner],
             batch |-> batch,
             vals |-> train_critic(batch, fake, real, gradient)]
    /\ trace' = Append(trace, Ev("train_critic", "", batch, 0,
                                 [epoch |-> epoch, iteration |-> iteration,
                                  call |-> inner], NoName))
    /\ UNCHANGED << epoch, iteration, nextIdx, batch, inner,
                    generator_losses, grads, steps, startSteps,
                    dirExists, files >>

\* loss.backward(): every network the graph of the loss reaches gets the
\* loss accumulated into the .grad of its parameters.
Backward(g, loss, key) ==
    [n \in Networks |-> IF n \in loss.deps THEN g[n] \cup {key} ELSE g[n]]

\* lines 71-72: critic_losses["C/loss"].backward(retain_graph=True)
CriticBackward ==
    /\ pc = "L72"
    /\ FitFrame
    /\ Goto("L74")
    /\ grads' = Backward(grads, critic_losses.vals["C/loss"], "C/loss")
    /\ trace' = Append(trace, Call("backward", "C/loss"))
    /\ UNCHANGED << epoch, iteration, nextIdx, batch, inner, critic_losses,
                    generator_losses, steps, startSteps, dirExists, files >>

\* line 74: self.critic_optimizer.step()
CriticStep ==
    /\ pc = "L74"
    /\ FitFrame
    /\ Goto("L67")
    /\ steps' = [steps EXCEPT ![trainer.critic_optimizer] = @ + 1]
    /\ trace' = Append(trace, Call("step", "critic_optimizer"))
    /\ UNCHANGED << epoch, iteration, nextIdx, batch, inner, critic_losses,
                    generator_losses, grads, startSteps, dirExists, files >>

\* line 76: self.generator_optimizer.zero_grad()
GeneratorZeroGrad ==
    /\ pc = "L76"
    /\ FitFrame
    /\ Goto("L78")
    /\ grads' = [grads EXCEPT ![trainer.generator_optimizer] = {}]
    /\ trace' = Append(trace, Call("zero_grad", "generator_optimizer"))
    /\ UNCHANGED << epoch, iteration, nextIdx, batch, inner, critic_losses,
                    generator_losses, steps, startSteps, dirExists, files >>

\* line 78: if not self.freeze_generator
IfNotFreeze ==
    /\ pc = "L78"
    /\ FitFrame
    /\ IF ~trainer.freeze_generator THEN Goto("L79") ELSE Goto("L87")
    /\ UNCHANGED << epoch, iteration, nextIdx, batch, inner, critic_losses,
                    generator_losses, grads, steps, startSteps, trace,
                    dirExists, files >>

\* line 79 handing train_generator the next batch of the loader
TrainGenerator_FreshBatch ==
    /\ pc = "L79"
    /\ FitFrame
    /\ Goto("L81")
    /\ batch' = nextIdx
    /\ nextIdx' = nextIdx + 1
    /\ \E fake \in ScoreBatches :
         generator_losses' =
            [bound |-> TRUE,
             src |-> [epoch |-> epoch, iteration |-> iteration, call |-> 0],
             batch |-> nextIdx,
             vals |-> train_generator(nextIdx, fake)]
    /\ trace' = Append(trace, Ev("train_generator", "", nextIdx, 0,
                                 [epoch |-> epoch, iteration |-> iteration,
                                  call |-> 0], NoName))
    /\ UNCHANGED << epoch, iteration, inner, critic_losses,
                    grads, steps, startSteps, dirExists, files >>

\* line 79: generator_losses = self.gan_model.train_generator(batch)
TrainGenerator ==
    /\ pc = "L79"
    /\ FitFrame
    /\ Goto("L81")
    /\ \E fake \in ScoreBatches :
         generator_losses' =
            [bound |-> TRUE,
             src |-> [epoch |-> epoch, iteration |-> iteration, call |-> 0],
             batch |-> batch,
             vals |-> train_generator(batch, fake)]
    /\ trace' = Append(trace, Ev("train_generator", "", batch, 0,
                                 [epoch |-> epoch, iteration |-> iteration,
                                  call |-> 0], NoName))
    /\ UNCHANGED << epoch, iteration, nextIdx, batch, inner, critic_losses,
                    grads, steps, startSteps, dirExists, files >>

\* lines 80-81: generator_losses["G/loss"].backward(retain_graph=True)
GeneratorBackward ==
    /\ pc = "L81"
    /\ FitFrame
    /\ Goto("L82")
    /\ grads' = Backward(grads, generator_losses.vals["G/loss"], "G/loss")
    /\ trace' = Append(trace, Call("backward", "G/loss"))
    /\ UNCHANGED << epoch, iteration, nextIdx, batch, inner, critic_losses,
                    generator_losses, steps, startSteps, dirExists, files >>

\* line 82: self.generator_optimizer.step()
GeneratorStep ==
    /\ pc = "L82"
    /\ FitFrame
    /\ Goto("L84")
    /\ steps' = [steps EXCEPT ![trainer.generator_optimizer] = @ + 1]
    /\ trace' = Append(trace, Call("step", "generator_optimizer"))
    /\ UNCHANGED << epoch, iteration, nextIdx, batch, inner, critic_losses,
                    generator_losses, grads, startSteps, dirExists, files >>

\* neptune_logger.log_metric(key, value.item()) for each item of a losses
\* dictionary, in the order the keys were inserted.
LogEvents(losses, keys) ==
    [i \in 1..Len(keys) |->
        Ev("log_metric", keys[i], -1, losses.vals[keys[i]].val, losses.src,
           NoName)]

\* lines 84-85
LogGenerator ==
    /\ pc = "L84"
    /\ FitFrame
    /\ Goto("L87")
    /\ trace' = trace \o LogEvents(generator_losses, <<"G/loss">>)
    /\ UNCHANGED << epoch, iteration, nextIdx, batch, inner, critic_losses,
                    generator_losses, grads, steps, startSteps,
                    dirExists, files >>

\* lines 87-88: critic_losses is a local of fit that only line 70 binds
LogCritic ==
    /\ pc = "L87"
    /\ FitFrame
    /\ IF ~critic_losses.bound
       THEN /\ Raise("UnboundLocalError", 87)
            /\ UNCHANGED trace
       ELSE /\ Goto("L90")
            /\ trace' = trace \o LogEvents(critic_losses,
                            <<"C/loss", "C/fake_pred", "C/real_pred",
                              "gradient penalty">>)
    /\ UNCHANGED << epoch, iteration, nextIdx, batch, inner, critic_losses,
                    generator_losses, grads, steps, startSteps,
                    dirExists, files >>

\* line 90: if iteration % self.display_step == 0
IfDisplay ==
    /\ pc = "L90"
    /\ FitFrame
    /\ IF iteration % trainer.display_step = 0
       THEN Goto("L92")
       ELSE Goto("L66")
    /\ UNCHANGED << epoch, iteration, nextIdx, batch, inner, critic_losses,
                    generator_losses, grads, steps, startSteps, trace,
                    dirExists, files >>

\* lines 91-94: build the name, create the save directory if it is absent
MakeSaveDir ==
    /\ pc = "L92"
    /\ FitFrame
    /\ Goto("L95")
    /\ dirExists' = TRUE
    /\ trace' = IF dirExists THEN trace
                ELSE Append(trace, Call("mkdir", "save_path"))
    /\ UNCHANGED << epoch, iteration, nextIdx, batch, inner, critic_losses,
                    generator_losses, grads, steps, startSteps, files >>

\* line 95: self.gan_model.save_models(save_path_with_iter, epoch)
SaveModels ==
    /\ pc = "L95"
    /\ FitFrame
    /\ IF "save_models" \notin methods
       THEN /\ Raise("AttributeError", 95)
            /\ UNCHANGED << files, trace >>
       ELSE /\ Goto("L96")
            /\ files' = files \cup {CheckpointName(epoch, iteration)}
            /\ trace' = Append(trace, Ev("save_models", "", -1, 0, NoSrc,
                                         CheckpointName(epoch, iteration)))
    /\ UNCHANGED << epoch, iteration, nextIdx, batch, inner, critic_losses,
                    generator_losses, grads, steps, startSteps, dirExists >>

\* line 96: outputs = self.gan_model.evaluate(validation_loader)
Evaluate ==
    /\ pc = "L96"
    /\ FitFrame
    /\ IF "evaluate" \notin methods
       THEN /\ Raise("AttributeError", 96)
            /\ UNCHANGED trace
       ELSE /\ Goto("L97")
            /\ trace' = Append(trace, Call("evaluate", "validation_loader"))
    /\ UNCHANGED << epoch, iteration, nextIdx, batch, inner, critic_losses,
                    generator_losses, grads, steps, startSteps,
                    dirExists, files >>

\* lines 97-99: neptune_logger.log_image("Histograms", outputs["histogram"])
LogHistograms ==
    /\ pc = "L97"
    /\ FitFrame
    /\ Goto("L100")
    /\ trace' = Append(trace, Call("log_image", "Histograms"))
    /\ UNCHANGED << epoch, iteration, nextIdx, batch, inner, critic_losses,
                    generator_losses, grads, steps, startSteps,
                    dirExists, files >>

\* line 100: neptune_logger.log_metric("rocauc", outputs["rocauc"])
LogRocauc ==
    /\ pc = "L100"
    /\ FitFrame
    /\ Goto("L66")
    /\ trace' = Append(trace, Call("log_metric", "rocauc"))
    /\ UNCHANGED << epoch, iteration, nextIdx, batch, inner, critic_losses,
                    generator_losses, grads, steps, startSteps,
                    dirExists, files >>

\* -------------------------------------------------------------------- Init
NetworkConfigs ==
    [optimizer : OptimizerNames, checkpoint_path : CheckpointPaths]

DefaultNetwork == [optimizer |-> "adam", checkpoint_path |-> ""]

Configs ==
    [generator_architecture : ArchNames, critic_architecture : ArchNames,
     generator : NetworkConfigs, critic : NetworkConfigs]

FCN == <<"f","c","n">>

TrainerArgs ==
    [constructed : {FALSE}, max_epoch : {MaxEpoch},
     display_step : 1..MaxDisplayStep, critic_step : 0..MaxCriticStep,
     freeze_generator : BOOLEAN,
     generator_optimizer : {NoOptimizer}, critic_optimizer : {NoOptimizer}]

IdleTrainer ==
    [constructed |-> FALSE, max_epoch |-> MaxEpoch, display_step |-> 1,
     critic_step |-> 1, freeze_generator |-> FALSE,
     generator_optimizer |-> NoOptimizer, critic_optimizer |-> NoOptimizer]

InitFit ==
    /\ epoch = 0
    /\ iteration = -1
    /\ nextIdx = 0
    /\ batch = -1
    /\ inner = 0
    /\ critic_losses = UnboundCritic
    /\ generator_losses = UnboundGenerator
    /\ grads = [n \in Networks |-> {}]
    /\ steps = [n \in Networks |-> 0]
    /\ startSteps = [n \in Networks |-> 0]
    /\ trace = <<>>
    /\ files = {}

InitConstruct ==
    /\ entry = "construct"
    /\ pc = "wgan_init"
    /\ params \in { c \in Configs : /\ c.generator.optimizer = "adam"
                                    /\ c.critic.optimizer = "adam" }
    /\ ckptFiles \in SUBSET (CheckpointPaths \ {""})
    /\ methods = WGANAttrs
    /\ generator_model = "none"
    /\ critic_model = "none"
    /\ genInput = [x |-> 0, y |-> 0]
    /\ trainer = IdleTrainer
    /\ dirExists = FALSE

InitGenerate ==
    /\ entry = "generate"
    /\ pc = "generate"
    /\ params = [generator_architecture |-> FCN, critic_architecture |-> FCN,
                 generator |-> DefaultNetwork, critic |-> DefaultNetwork]
    /\ ckptFiles = {}
    /\ methods = WGANAttrs
    /\ generator_model = "fcn"
    /\ critic_model = "fcn"
    /\ genInput \in [x : 0..MaxFeature, y : 0..MaxFeature]
    /\ trainer = IdleTrainer
    /\ dirExists = FALSE

InitTrain ==
    /\ entry = "train"
    /\ pc = "trainer_init"
    /\ params \in { c \in Configs : /\ c.generator_architecture = FCN
                                    /\ c.critic_architecture = FCN
                                    /\ c.generator.checkpoint_path = ""
                                    /\ c.critic.checkpoint_path = "" }
    /\ ckptFiles = {}
    /\ methods \in {WGANAttrs, CompleteAttrs}
    /\ generator_model = "fcn"
    /\ critic_model = "fcn"
    /\ genInput = [x |-> 0, y |-> 0]
    /\ trainer \in TrainerArgs
    /\ dirExists \in BOOLEAN

Init ==
    /\ error = "none"
    /\ raisedAt = 0
    /\ loaded = {}
    /\ genResult = [status |-> "pending", error |-> "none", line |-> 0,
                    output |-> NoOutput]
    /\ InitFit
    /\ \/ InitConstruct
       \/ InitGenerate
       \/ InitTrain

Next ==
    \/ WGANInit
    \/ Generate
    \/ TrainerInit
    \/ ForEpoch
    \/ ForBatch
    \/ ForCriticStep
    \/ CriticZeroGrad
    \/ TrainCritic
    \/ CriticBackward
    \/ CriticStep
    \/ GeneratorZeroGrad
    \/ IfNotFreeze
    \/ TrainGenerator
    \/ GeneratorBackward
    \/ GeneratorStep
    \/ LogGenerator
    \/ LogCritic
    \/ IfDisplay
    \/ MakeSaveDir
    \/ SaveModels
    \/ Evaluate
    \/ LogHistograms
    \/ LogRocauc

Spec == Init /\ [][Next]_vars

\* ================================================================ claims
InFit == entry = "train" /\ trainer.constructed

\* The outer iteration of line 66 has run to its end and the next batch has
\* not been drawn yet.
IterationCompleted == InFit /\ pc = "L66" /\ trace # <<>>

\* Control is inside the body of the loop of line 66.
InIteration == InFit /\ pc \notin {"L65", "L66", "fit_done"}

StepsInIteration(opt) == steps[opt] - startSteps[opt]

\* C1: over every outer iteration that runs to its end, critic_optimizer.step()
\* is called exactly critic_step times and generator_optimizer.step() exactly
\* once, or not at all when freeze_generator is set.
C1_StepCounts ==
    IterationCompleted =>
        /\ StepsInIteration(trainer.critic_optimizer) = trainer.critic_step
        /\ StepsInIteration(trainer.generator_optimizer)
              = IF trainer.freeze_generator THEN 0 ELSE 1

C1_Witness ==
    /\ IterationCompleted
    /\ trainer.critic_step > 1
    /\ trainer.freeze_generator
    /\ steps[trainer.critic_optimizer] > trainer.critic_step
    /\ steps[trainer.generator_optimizer] = 0

CriticUpdate ==
    << Call("zero_grad", "critic_optimizer"), "train_critic",
       Call("backward", "C/loss"), Call("step", "critic_optimizer") >>

GeneratorUpdate ==
    << Call("zero_grad", "generator_optimizer"), "train_generator",
       Call("backward", "G/loss"), Call("step", "generator_optimizer") >>

\* The event is the n-th call of the update pattern.
MatchesCall(e, pattern, n) ==
    IF n = 2 THEN e.op = pattern[2] ELSE e = pattern[n]

IsCriticCall(e) ==
    \E n \in 1..4 : MatchesCall(e, CriticUpdate, n)

IsGeneratorCall(e) ==
    \E n \in 1..4 : MatchesCall(e, GeneratorUpdate, n)

\* C2: in every outer iteration the critic_step critic updates, each of them
\* zero_grad, train_critic, backward, step in this order, are all finished
\* before the generator update (zero_grad, train_generator, backward, step)
\* starts; train_generator gets the batch the critic updates got, and the
\* loader has handed out no other batch since the iteration began.
C2_CriticBeforeGenerator ==
    InFit =>
        /\ \A i \in 1..Len(trace) :
              /\ i <= 4 * trainer.critic_step
                    => MatchesCall(trace[i], CriticUpdate, ((i - 1) % 4) + 1)
              /\ IsCriticCall(trace[i]) => i <= 4 * trainer.critic_step
              /\ IsGeneratorCall(trace[i])
                    => /\ i > 4 * trainer.critic_step
                       /\ i <= 4 * trainer.critic_step + 4
                       /\ MatchesCall(trace[i], GeneratorUpdate,
                                      i - 4 * trainer.critic_step)
              /\ trace[i].op \in {"train_critic", "train_generator"}
                    => /\ trace[i].batch = batch
                       /\ batch = iteration
        /\ InIteration => nextIdx = iteration + 1

C2_Witness ==
    /\ InFit
    /\ trainer.critic_step > 1
    /\ iteration > 0
    /\ \E i \in 1..Len(trace) :
          /\ trace[i].op = "train_generator"
          /\ i = 4 * trainer.critic_step + 2
    /\ \E i \in 1..Len(trace) : trace[i] = Call("step", "generator_optimizer")

LossValue(key) == critic_losses.vals[key].val

\* C3: the 'C/loss' train_critic returns is 'C/real_pred' minus 'C/fake_pred'
\* plus 10 times 'gradient penalty'.
C3_CriticLoss ==
    critic_losses.bound =>
        LossValue("C/loss")
          = LossValue("C/real_pred") - LossValue("C/fake_pred")
            + 10 * LossValue("gradient penalty")

\* C4: the critic loss does not reach the generator's parameters: neither the
\* loss nor its gradient-penalty term has the generator in its graph, and
\* backward on 'C/loss' accumulates nothing into the generator's gradients.
C4_NoGeneratorGradient ==
    InFit =>
        /\ critic_losses.bound
              => /\ "generator" \notin critic_losses.vals["gradient penalty"].deps
                 /\ "generator" \notin critic_losses.vals["C/fake_pred"].deps
                 /\ "generator" \notin critic_losses.vals["C/loss"].deps
        /\ "C/loss" \notin grads["generator"]

Recognized(name) == Lower(name) \in { <<"n","o","d","e">>, <<"f","c","n">> }

ArchitectureOf(name) ==
    IF Lower(name) = <<"n","o","d","e">> THEN "node" ELSE "fcn"

CheckpointUsable(path) == path = "" \/ path \in ckptFiles

ConstructionEnded == entry = "construct" /\ pc # "wgan_init"

\* C5: construction accepts every spelling of node and fcn for either
\* network and builds each network after its own name; any other name ends
\* construction with the unknown-architecture error.
C5_CaseInsensitiveDispatch ==
    ConstructionEnded =>
        IF Recognized(params.generator_architecture)
           /\ Recognized(params.critic_architecture)
        THEN (CheckpointUsable(params.generator.checkpoint_path)
              /\ CheckpointUsable(params.critic.checkpoint_path))
                 => /\ pc = "constructed"
                    /\ generator_model
                          = ArchitectureOf(params.generator_architecture)
                    /\ critic_model
                          = ArchitectureOf(params.critic_architecture)
        ELSE pc = "raised" /\ error = "NameError"

\* C6: generate(batch) returns the generator's output on x joined with
\* fresh noise and reads no name that is not bound.
C6_GenerateReturns ==
    (entry = "generate" /\ pc # "generate") =>
        /\ pc = "generated"
        /\ error = "none"
        /\ genResult.status = "returned"
        /\ genResult.output.x = genInput.x

DisplayBlock ==
    << Ev("save_models", "", -1, 0, NoSrc, CheckpointName(epoch, iteration)),
       Call("evaluate", "validation_loader"),
       Call("log_image", "Histograms"),
       Call("log_metric", "rocauc") >>

IsDisplayCall(e) ==
    e.op \in {"mkdir", "save_models", "evaluate", "log_image"}
    \/ e = Call("log_metric", "rocauc")

\* C7: with the WGAN of this repository as gan_model, an iteration whose
\* index is a multiple of display_step ends with: save directory created if
\* absent, checkpoint epoch_<epoch>_iter_<iteration> written, evaluate,
\* 'Histograms', 'rocauc', each of them completing; no other iteration does
\* any of this.
C7_DisplayBlockCompletes ==
    (InFit /\ methods = WGANAttrs) =>
        /\ pc = "raised" => raisedAt \notin 90..100
        /\ IterationCompleted =>
              IF iteration % trainer.display_step = 0
              THEN /\ Len(trace) > 4
                   /\ SubSeq(trace, Len(trace) - 3, Len(trace)) = DisplayBlock
                   /\ CheckpointName(epoch, iteration) \in files
                   /\ dirExists
              ELSE \A i \in 1..Len(trace) : ~IsDisplayCall(trace[i])

\* C8: for every critic_step >= 0 the critic metrics fit logs are those of
\* the last train_critic call of the same outer iteration, and the logging
\* statement is never reached with critic_losses produced by no call.
C8_LoggedCriticMetrics ==
    InFit =>
        /\ pc = "L87" =>
              /\ critic_losses.bound
              /\ critic_losses.src = [epoch |-> epoch, iteration |-> iteration,
                                      call |-> trainer.critic_step]
        /\ \A i \in 1..Len(trace) :
              (trace[i].op = "log_metric" /\ trace[i].target \in CriticKeys)
                 => trace[i].src = [epoch |-> epoch, iteration |-> iteration,
                                    call |-> trainer.critic_step]
        /\ ~(pc = "raised" /\ raisedAt = 87)

\* C9: when the name of either network is not recognized, construction ends
\* with the unknown-architecture error and at that moment no network has
\* been built and no checkpoint loaded, the generator's included.
C9_ErrorBeforeAnyNetwork ==
    (ConstructionEnded
     /\ ~(Recognized(params.generator_architecture)
          /\ Recognized(params.critic_architecture))) =>
        /\ pc = "raised"
        /\ error = "NameError"
        /\ generator_model = "none"
        /\ critic_model = "none"
        /\ loaded = {}

C9_Witness ==
    /\ ConstructionEnded
    /\ Recognized(params.generator_architecture)
    /\ ~Recognized(params.critic_architecture)
    /\ params.generator.checkpoint_path \in ckptFiles
    /\ pc = "raised"
    /\ generator_model = "none"

UnknownOptimizer ==
    params.generator.optimizer # "adam" \/ params.critic.optimizer # "adam"

\* C10: with an optimizer name other than 'adam' for either network,
\* configure_optimizers raises and hands out no optimizer, so the Trainer is
\* never constructed and fit makes no optimizer step, emits nothing and
\* writes nothing; with 'adam' for both, the Trainer holds the generator's
\* optimizer as generator_optimizer and the critic's as critic_optimizer.
C10_UnknownOptimizerFailsFast ==
    entry = "train" =>
        IF UnknownOptimizer
        THEN /\ pc \in {"trainer_init", "raised"}
             /\ pc = "raised" => error = "NameError" /\ raisedAt \in {32, 41}
             /\ ~trainer.constructed
             /\ trainer.generator_optimizer = NoOptimizer
             /\ trainer.critic_optimizer = NoOptimizer
             /\ \A n \in Networks : steps[n] = 0
             /\ trace = <<>>
             /\ files = {}
        ELSE pc # "trainer_init" =>
                /\ trainer.constructed
                /\ trainer.generator_optimizer = Adam("generator")
                /\ trainer.critic_optimizer = Adam("critic")

C10_Witness ==
    /\ entry = "train"
    /\ params.generator.optimizer = "adam"
    /\ params.critic.optimizer = "sgd"
    /\ pc = "raised"
    /\ error = "NameError"
    /\ raisedAt = 41

====
